---- MODULE Spec2Model ----
(***************************************************************************)
(* Translation queue engine of the subtitle workbench (App component).     *)
(*                                                                         *)
(* The engine is a React function component.  Its state lives in useState  *)
(* cells and refs; processNext is a useCallback closure over the files,    *)
(* the queue, the settings and the Translation Memory of the render that   *)
(* created it.  A suspended continuation of processNext (a pending         *)
(* setTimeout, a backend call in flight, the quota setInterval) keeps that *)
(* closure: it is modelled as a record of `pend` carrying the snapshot.    *)
(***************************************************************************)
EXTENDS Integers, Sequences, FiniteSets, TLC

VARIABLES
    files,                  \* useState<SubtitleFile[]>
    activeFileId,           \* useState<string | null>
    settings,               \* useState<AppSettings>
    translationMemory,      \* useState<Map<string,string>>
    tmStore,                \* IndexedDB object store 'translation_memory'
    tmLoading,              \* the loadFullTM() promise of the startup effect is pending
    processing,             \* useState(false); processingRef.current mirrors it
    processingQueue,        \* useState<string[]>
    activeProcessingCueId,  \* useState<string | null>
    isWaitingForQuota,      \* useState(false)
    quotaWaitSeconds,       \* useState(0)
    keyIndexRef,            \* useRef(0)
    pend,                   \* suspended continuations: of processNext, and of the other awaits
    lastTick,               \* what the last step of a tick did (observation)
    lastExec,               \* what the last executeWithRotation call did (observation)
    aiDone,                 \* identifiers of the cues the backend has translated (observation)
    sent,                   \* requests submitted to the backend so far (observation)
    opsLeft,                \* operations the user may still perform in this run
    hasUnsavedChanges,      \* useState(false)
    draft,                  \* localStorage 'subtitle_draft_autosave'
    restoreAvailable,       \* useState(false)
    library                 \* IndexedDB object store 'library' (keyPath id)

vars == <<files, activeFileId, settings, translationMemory, tmStore, tmLoading,
          processing, processingQueue, activeProcessingCueId, isWaitingForQuota,
          quotaWaitSeconds, keyIndexRef, pend, lastTick, lastExec, aiDone, sent, opsLeft,
          hasUnsavedChanges, draft, restoreAvailable, library>>

(***************************************************************************)
(* Bounds of the model.                                                    *)
(***************************************************************************)
MaxKeys == 2        \* size of the largest credential pool
MaxQueue == 4       \* retryCue is not modelled on a queue of this length
MaxBatch == 2       \* largest settings.batchSize
MaxUserOps == 3     \* operations the user performs in one run

Null == "null"                  \* JavaScript null
Undefined == "undefined"        \* JavaScript undefined

\* the stored draft: localStorage.getItem gives null, or the files written
NoDraft == [stored |-> FALSE, files |-> <<>>]
DraftOf(fs) == [stored |-> TRUE, files |-> fs]

(***************************************************************************)
(* Texts are sequences of characters, so that trim(), toLowerCase() and    *)
(* the punctuation strip are computed and not assumed.                     *)
(***************************************************************************)
RECURSIVE TrimStart(_)
TrimStart(s) == IF s # <<>> /\ Head(s) = " " THEN TrimStart(Tail(s)) ELSE s

RECURSIVE TrimEnd(_)
TrimEnd(s) ==
    IF s # <<>> /\ s[Len(s)] = " " THEN TrimEnd(SubSeq(s, 1, Len(s) - 1)) ELSE s

Trim(s) == TrimEnd(TrimStart(s))

LowerChar(c) ==
    CASE c = "A" -> "a"
      [] c = "B" -> "b"
      [] c = "O" -> "o"
      [] c = "K" -> "k"
      [] OTHER -> c

ToLowerCase(s) == [i \in 1..Len(s) |-> LowerChar(s[i])]

WordOrSpace == {"a", "b", "o", "k", "y", "A", "B", "O", "K", " "}

\* lower.replace(/[^\w\s]/gi, '')
StripPunct(s) == SelectSeq(s, LAMBDA c : c \in WordOrSpace)

Normalize(s) == ToLowerCase(Trim(s))

\* a JavaScript value used as a condition: '' and undefined are falsy
Truthy(v) == v # "" /\ v # Undefined

(***************************************************************************)
(* Source texts of the cues, and the strings the user, the backend, the    *)
(* glossary and the memory produce.                                        *)
(***************************************************************************)
TxtAbSp == <<" ", "A", "b">>
TxtAb == <<"a", "b">>
TxtOk == <<"O", "k", "?">>
TxtYo == <<"y", "o">>

\* COMMON_WORD_CACHE, the one entry the texts above can reach ("ok": "Tamam")
COMMON_WORD_CACHE == (<<"o", "k">> :> "Tamam")

\* the backend's translation of a source text
BackendText(text) ==
    CASE text = TxtAbSp -> "T:_Ab"
      [] text = TxtAb -> "T:ab"
      [] text = TxtOk -> "T:Ok?"
      [] OTHER -> "T:yo"
UserTexts == {"U"}

NewCue(id, text) ==
    [originalId |-> id, originalText |-> text, translatedText |-> "",
     refinedText |-> "", status |-> "pending", translationSource |-> Undefined,
     errorMessage |-> Undefined, isLocked |-> FALSE]

\* Math.round((completed / length) * 100)
Progress(cues) ==
    LET done == Cardinality({i \in 1..Len(cues) : cues[i].status = "completed"})
    IN (200 * done + Len(cues)) \div (2 * Len(cues))

NewFile(id, cues) == [id |-> id, cues |-> cues, progress |-> 0]

(***************************************************************************)
(* analyzeError.  A failure value is described by what the function probes *)
(* of it: the top-level status, which of the four shapes it has, the       *)
(* nested code, whether it carries a message at all, and the set of        *)
(* lower-cased keywords the message contains.                              *)
(***************************************************************************)
QuotaWords == {"429", "quota", "exhausted", "resource_exhausted"}
AuthWords == {"unauthenticated", "permission"}
SafetyWords == {"blocked", "safety", "recitation", "finishreason"}
ServerWords == {"unavailable", "timeout", "network", "fetch"}

ErrorValue(shape, status, code, hasMsg, words) ==
    [shape |-> shape, status |-> status, code |-> code, hasMsg |-> hasMsg,
     words |-> words]

\* status = error.status || 0, then overwritten by the nested code when truthy
ErrStatus(e) ==
    IF e.shape \in {"response", "error"} /\ e.code # 0 THEN e.code ELSE e.status

\* (msg || '').toLowerCase(), as the set of keywords it includes
ErrLowerMsg(e) == IF e.hasMsg THEN e.words ELSE {}

ErrorAction(action, message, delay) ==
    [action |-> action, message |-> message, delay |-> delay]

\* mutant of analyzeError (C21): the safety rule is tried before the two
\* authentication rules
analyzeErrorSafetyFirst(e) ==
    LET status == ErrStatus(e)
        lowerMsg == ErrLowerMsg(e)
    IN  IF status = 429 \/ lowerMsg \cap QuotaWords # {}
          THEN ErrorAction("wait_quota", "Kota Doldu (429)", 2000)
        ELSE IF lowerMsg \cap SafetyWords # {}
          THEN ErrorAction("skip", "Guvenlik Filtresi", 500)
        ELSE IF status = 400 /\ "api key" \in lowerMsg
          THEN ErrorAction("stop", "Gecersiz API Anahtari", 0)
        ELSE IF status \in {401, 403} \/ lowerMsg \cap AuthWords # {}
          THEN ErrorAction("stop", "Yetki Hatasi", 0)
        ELSE IF status >= 500 \/ lowerMsg \cap ServerWords # {}
          THEN ErrorAction("retry", "Sunucu/Ag Hatasi", 3000)
        ELSE IF ~e.hasMsg
          THEN ErrorAction("throws", "TypeError", 0)
        ELSE ErrorAction("retry", "Hata", 1000)

analyzeError(e) ==
    LET status == ErrStatus(e)
        lowerMsg == ErrLowerMsg(e)
    IN  IF status = 429 \/ lowerMsg \cap QuotaWords # {}
          THEN ErrorAction("wait_quota", "Kota Doldu (429)", 2000)
        ELSE IF status = 400 /\ "api key" \in lowerMsg
          THEN ErrorAction("stop", "Gecersiz API Anahtari", 0)
        ELSE IF status \in {401, 403} \/ lowerMsg \cap AuthWords # {}
          THEN ErrorAction("stop", "Yetki Hatasi", 0)
        ELSE IF lowerMsg \cap SafetyWords # {}
          THEN ErrorAction("skip", "Guvenlik Filtresi", 500)
        ELSE IF status >= 500 \/ lowerMsg \cap ServerWords # {}
          THEN ErrorAction("retry", "Sunucu/Ag Hatasi", 3000)
        ELSE IF ~e.hasMsg
          THEN ErrorAction("throws", "TypeError", 0)   \* msg.slice on undefined
        ELSE ErrorAction("retry", "Hata", 1000)

\* The failures the backend stub raises in the engine model.
ErrQuota == ErrorValue("error", 0, 429, TRUE, {"resource_exhausted", "exhausted"})
ErrAuth == ErrorValue("message", 403, 0, TRUE, {"permission"})
ErrSafety == ErrorValue("message", 0, 0, TRUE, {"blocked"})
ErrServer == ErrorValue("message", 503, 0, TRUE, {"unavailable"})
BackendErrors == {ErrQuota, ErrAuth, ErrSafety, ErrServer}

(***************************************************************************)
(* executeWithRotation.  `out` is the behaviour of the task per pool       *)
(* position (0-based): [ok |-> TRUE, result |-> r] or                      *)
(* [ok |-> FALSE, error |-> e].                                            *)
(***************************************************************************)
NoError == ErrorAction("none", "", 0)      \* let lastError = null
NoFailure == ErrorValue("none", 0, 0, FALSE, {})

\* a result is always an array here: translateText's string r is <<r>>, which
\* is what `Array.isArray(result) ? result : [result]` makes of it
Ok(r) == [ok |-> TRUE, result |-> r, error |-> NoFailure]
Fail(e) == [ok |-> FALSE, result |-> <<>>, error |-> e]

\* const keys = settings.apiKeys.length > 0 ? settings.apiKeys : ['']
PoolSize(s) == IF Len(s.apiKeys) > 0 THEN Len(s.apiKeys) ELSE 1

\* mutant of StartIndex (C27): the sequential strategy starts at the first key
StartIndexFirst(s, cursor, rnd) == IF s.keySelectionStrategy = "random" THEN rnd ELSE 0

\* let startIndex = keyIndexRef.current; random: Math.floor(Math.random() * keys.length)
StartIndex(s, cursor, rnd) == IF s.keySelectionStrategy = "random" THEN rnd ELSE cursor

\* the values Math.floor(Math.random() * keys.length) can take, when it is called
RandomStarts(s) ==
    IF s.keySelectionStrategy = "random" THEN 0..(PoolSize(s) - 1) ELSE {0}

\* mutant of NextCursor (C4): the cursor stays on the key that answered
NextCursorStays(currentKeyIndex, n) == currentKeyIndex

\* keyIndexRef.current = (currentKeyIndex + 1) % keys.length
NextCursor(currentKeyIndex, n) == (currentKeyIndex + 1) % n

\* mutant of StopsRotation (C5): a stop classification fails over like the others
StopsRotationNever(info) == FALSE

\* else if (info.action === 'stop') return { success: false, error: info }
StopsRotation(info) == info.action = "stop"

\* mutant of Remember (C25): the first classification of the call is kept
RememberFirst(lastError, info) == IF lastError = NoError THEN info ELSE lastError

\* lastError = info
Remember(lastError, info) == info

\* mutant of QuotaAttempts (C26): a quota failure ends the rotation
QuotaAttemptsEnd(n, attempts) == n

\* if (info.action === 'wait_quota') { attempts++; continue; }
QuotaAttempts(n, attempts) == attempts + 1

RECURSIVE RotationLoop(_, _, _, _, _, _, _)
RotationLoop(n, startIndex, out, attempts, lastError, tried, cursor) ==
    IF attempts >= n
      THEN [success |-> FALSE, result |-> <<>>,
            error |-> IF lastError = NoError
                        THEN ErrorAction("retry", "Bilinmeyen Hata", 1000)
                        ELSE lastError,
            tried |-> tried, cursor |-> cursor, threw |-> FALSE]
      ELSE
        LET currentKeyIndex == (startIndex + attempts) % n
            r == out[currentKeyIndex]
            tried1 == Append(tried, currentKeyIndex)
        IN  IF r.ok
              THEN [success |-> TRUE, result |-> r.result, error |-> NoError,
                    tried |-> tried1, cursor |-> NextCursor(currentKeyIndex, n),
                    threw |-> FALSE]
              ELSE
                LET info == analyzeError(r.error)
                IN  IF info.action = "throws"
                      THEN [success |-> FALSE, result |-> <<>>, error |-> info,
                            tried |-> tried1, cursor |-> cursor, threw |-> TRUE]
                    ELSE IF info.action = "wait_quota"
                      THEN RotationLoop(n, startIndex, out, QuotaAttempts(n, attempts),
                                        Remember(lastError, info), tried1, cursor)
                    ELSE IF StopsRotation(info)
                      THEN [success |-> FALSE, result |-> <<>>, error |-> info,
                            tried |-> tried1, cursor |-> cursor, threw |-> FALSE]
                    ELSE RotationLoop(n, startIndex, out, attempts + 1,
                                      Remember(lastError, info), tried1, cursor)

executeWithRotation(s, cursor, rnd, out) ==
    RotationLoop(PoolSize(s), StartIndex(s, cursor, rnd), out, 0, NoError, <<>>, cursor)

(***************************************************************************)
(* Helpers on files, cues and the queue.                                   *)
(***************************************************************************)
Min(S) == CHOOSE x \in S : \A y \in S : x <= y

Range(q) == {q[i] : i \in 1..Len(q)}

CueIds(f) == {f.cues[i].originalId : i \in 1..Len(f.cues)}

\* files.find(f => f.cues.some(c => c.originalId === id)), as an index (0: none)
FindFile(fs, id) ==
    LET hit == {i \in 1..Len(fs) : id \in CueIds(fs[i])}
    IN IF hit = {} THEN 0 ELSE Min(hit)

\* files.find(f => f.id === fileId), as an index (0: none)
FindFileById(fs, fileId) ==
    LET hit == {i \in 1..Len(fs) : fs[i].id = fileId}
    IN IF hit = {} THEN 0 ELSE Min(hit)

\* file.cues.find(c => c.originalId === id), for an id of the file
FindCue(f, id) == f.cues[Min({i \in 1..Len(f.cues) : f.cues[i].originalId = id})]

\* array.findIndex, 1-based (0: none)
IndexOf(q, x) ==
    LET hit == {i \in 1..Len(q) : q[i] = x}
    IN IF hit = {} THEN 0 ELSE Min(hit)

\* q.filter(id => !ids.includes(id))
Without(q, ids) == SelectSeq(q, LAMBDA x : x \notin ids)

\* [...new Set(q)]: first occurrences, in order
RECURSIVE Dedup(_)
Dedup(q) ==
    IF q = <<>> THEN <<>>
    ELSE LET front == Dedup(SubSeq(q, 1, Len(q) - 1))
         IN IF q[Len(q)] \in Range(front) THEN front ELSE Append(front, q[Len(q)])

\* the cues of the files
CuesOf(fs) == UNION {Range(fs[i].cues) : i \in 1..Len(fs)}

\* prev.map(f => f.id !== fileId ? f : {...f, cues: f.cues.map(c => upd[c])}), with the
\* progress recomputed when the handler does so
MapCues(fs, fileId, upd, withProgress) ==
    [i \in 1..Len(fs) |->
        IF fs[i].id # fileId THEN fs[i]
        ELSE LET newCues == [j \in 1..Len(fs[i].cues) |-> upd[fs[i].cues[j]]]
             IN [fs[i] EXCEPT !.cues = newCues,
                              !.progress = IF withProgress THEN Progress(newCues) ELSE @]]

RemoveAt(q, i) == SubSeq(q, 1, i - 1) \o SubSeq(q, i + 1, Len(q))

(***************************************************************************)
(* The closure of one processNext: the state of the render that made it.   *)
(***************************************************************************)
Snapshot ==
    [files |-> files, processingQueue |-> processingQueue, settings |-> settings,
     translationMemory |-> translationMemory]

BatchSizePlusOne(st) == st.batchSize + 1

\* const batchSize = settings.batchSize || 1
BatchSize(st) == IF st.batchSize = 0 THEN 1 ELSE st.batchSize

\* for (const qId of processingQueue) { if (in file) { push; if (length >= batchSize) break } }
RECURSIVE BatchLoop(_, _, _, _)
BatchLoop(q, ids, batchSize, acc) ==
    IF q = <<>> THEN acc
    ELSE IF Head(q) \in ids
      THEN LET acc1 == Append(acc, Head(q))
           IN IF Len(acc1) >= batchSize THEN acc1
              ELSE BatchLoop(Tail(q), ids, batchSize, acc1)
    ELSE BatchLoop(Tail(q), ids, batchSize, acc)

BatchCandidates(s, file) ==
    BatchLoop(s.processingQueue, CueIds(file), BatchSize(s.settings), <<>>)

Lookup(m, k) == IF k \in DOMAIN m THEN m[k] ELSE Undefined

\* mutant of Found (C28): the Translation Memory is looked up before the glossary
FoundMemoryFirst(s, cue) ==
    LET clean == Trim(cue.originalText)
        lower == ToLowerCase(clean)
        g == Lookup(s.settings.glossary, clean)
        t == Lookup(s.translationMemory, lower)
    IN  IF Truthy(t) THEN t
        ELSE IF Truthy(g) THEN g
        ELSE Lookup(COMMON_WORD_CACHE, StripPunct(lower))

\* settings.glossary[clean] || translationMemory.get(lower) || COMMON_WORD_CACHE[...]
Found(s, cue) ==
    LET clean == Trim(cue.originalText)
        lower == ToLowerCase(clean)
        g == Lookup(s.settings.glossary, clean)
        t == Lookup(s.translationMemory, lower)
    IN  IF Truthy(g) THEN g
        ELSE IF Truthy(t) THEN t
        ELSE Lookup(COMMON_WORD_CACHE, StripPunct(lower))

\* the batch of the closure, split into memory hits and cues to translate (ids)
MemoryHits(s, file, batch) ==
    SelectSeq(batch, LAMBDA id : Truthy(Found(s, FindCue(file, id))))

NeedsTranslation(s, file, batch) ==
    SelectSeq(batch, LAMBDA id : ~Truthy(Found(s, FindCue(file, id))))

ApplyHit(s, file, hitIds, c) ==
    IF c.originalId \in hitIds
      THEN [c EXCEPT !.translatedText = Found(s, FindCue(file, c.originalId)),
                     !.refinedText = Found(s, FindCue(file, c.originalId)),
                     !.status = "completed", !.translationSource = "tm"]
      ELSE c

\* mutant of MarkTranslating (C19): the cues sent to the backend keep their status
MarkTranslatingNot(needIds, c) == c

MarkTranslating(needIds, c) ==
    IF c.originalId \in needIds
      THEN [c EXCEPT !.status = "translating", !.errorMessage = Undefined]
      ELSE c

\* after: the outcome of the tick that has left the continuation
Cont(kind, s, fileId, needs, after) ==
    [kind |-> kind, snap |-> s, fileId |-> fileId, needs |-> needs, after |-> after]

Tick(kind, batch, hits, needs, q, action) ==
    [kind |-> kind, batch |-> batch, hits |-> hits, needs |-> needs,
     queueBefore |-> q, action |-> action, results |-> <<>>, again |-> FALSE,
     by |-> "none", after |-> "none", read |-> <<>>, tried |-> <<>>,
     before |-> "none"]

NoTick == Tick("none", <<>>, <<>>, <<>>, <<>>, "none")

\* mutant of DropHead (C36): the identifier that resolves to no cue stays queued
DropHeadNot(q) == q

\* setProcessingQueue(q => q.slice(1))
DropHead(q) == SubSeq(q, 2, Len(q))

\* mutant of NoKeys (C35): the tick does not look at the credential pool
NoKeysNever(s) == FALSE

\* if (settings.apiKeys.length === 0)
NoKeys(s) == Len(s.settings.apiKeys) = 0

(***************************************************************************)
(* processNext, from its entry to its first await (or its return), run in  *)
(* the closure s; p is the list of continuations it adds to, by is what    *)
(* invoked it (the effect, a timer, the quota countdown), after is the     *)
(* outcome of the tick that scheduled it.                                  *)
(***************************************************************************)
ProcessNext(s, p, by, after) ==
    IF ~processing \/ s.processingQueue = <<>>
      THEN /\ processing' = FALSE
           /\ activeProcessingCueId' = Null
           /\ pend' = p
           /\ lastTick' = [Tick("finished", <<>>, <<>>, <<>>, processingQueue, "none")
                          EXCEPT !.by = by, !.after = after, !.read = s.processingQueue]
           /\ UNCHANGED <<files, processingQueue, sent>>
    ELSE IF NoKeys(s)
      THEN /\ processing' = FALSE
           /\ pend' = p
           /\ lastTick' = [Tick("nokeys", <<>>, <<>>, <<>>, processingQueue, "none")
                          EXCEPT !.by = by, !.after = after, !.read = s.processingQueue]
           /\ UNCHANGED <<files, processingQueue, activeProcessingCueId, sent>>
    ELSE IF FindFile(s.files, Head(s.processingQueue)) = 0
      THEN /\ processingQueue' = DropHead(processingQueue)
           /\ pend' = p
           /\ lastTick' = [Tick("nofile", <<>>, <<>>, <<>>, processingQueue, "none")
                          EXCEPT !.by = by, !.after = after, !.read = s.processingQueue]
           /\ UNCHANGED <<files, processing, activeProcessingCueId, sent>>
    ELSE
      LET file == s.files[FindFile(s.files, Head(s.processingQueue))]
          batch == BatchCandidates(s, file)
          hits == MemoryHits(s, file, batch)
          needs == NeedsTranslation(s, file, batch)
          hitIds == Range(hits)
          needIds == Range(needs)
          files1 == IF hits # <<>>
                      THEN MapCues(files, file.id,
                              [c \in CuesOf(files) |-> ApplyHit(s, file, hitIds, c)], TRUE)
                      ELSE files
      IN  /\ activeProcessingCueId' = Head(batch)
          /\ processingQueue' = Without(processingQueue, hitIds)
          /\ UNCHANGED processing
          /\ IF needs = <<>>
               THEN /\ files' = files1
                    /\ pend' = Append(p, Cont("timer", s, file.id, <<>>, "hits"))
                    /\ lastTick' = [Tick("hits", batch, hits, needs, processingQueue, "none")
                                      EXCEPT !.by = by, !.after = after, !.read = s.processingQueue]
                    /\ UNCHANGED sent
               ELSE /\ files' = MapCues(files1, file.id,
                              [c \in CuesOf(files1) |-> MarkTranslating(needIds, c)], FALSE)
                    /\ pend' = Append(p, Cont("call", s, file.id, needs, "none"))
                    /\ lastTick' = [Tick("call", batch, hits, needs, processingQueue, "none")
                                      EXCEPT !.again = needs \in sent, !.by = by, !.after = after, !.read = s.processingQueue]
                    /\ sent' = sent \cup {needs}

(***************************************************************************)
(* The backend stub: what the task returns or raises per pool position.    *)
(***************************************************************************)
\* translateText gives one string; translateBatch gives the parsed array, of
\* the requested length or (its "mismatch recovery") of another length: here
\* the translations of the first n texts
BackendResults(texts) ==
    IF Len(texts) = 1 THEN {<<BackendText(texts[1])>>}
    ELSE {[j \in 1..n |-> BackendText(texts[j])] : n \in {Len(texts) - 1, Len(texts)}}

\* needsTranslation.map(c => c.originalText), the cues being those of the closure
RequestTexts(k) ==
    [j \in 1..Len(k.needs) |->
        FindCue(k.snap.files[FindFileById(k.snap.files, k.fileId)], k.needs[j]).originalText]

\* per pool position a failure or none; every position that answers gives r
StubOf(fails, r) ==
    [j \in DOMAIN fails |-> IF fails[j] = NoFailure THEN Ok(r) ELSE Fail(fails[j])]

\* resultsArray[idx], 0-based idx given 1-based here
ResultAt(resultsArray, idx) ==
    IF idx \in 1..Len(resultsArray) THEN resultsArray[idx] ELSE Undefined

\* saveToTM(original, translated)
SaveToTM(store, original, translated) ==
    IF original = <<>> \/ ~Truthy(translated) THEN store
    ELSE (Trim(original) :> translated) @@ store

\* new Map(mem).set(key, value)
MapSet(mem, key, value) == (key :> value) @@ mem

\* mutant of ApplyResult (C22): the result of the call is dropped
ApplyResultNot(needs, resultsArray, c) == c

\* mutant of ApplyResult (C10): the translated cues keep the source 'tm'
ApplyResultAsTm(needs, resultsArray, c) ==
    IF IndexOf(needs, c.originalId) # 0
      THEN [c EXCEPT !.translatedText = ResultAt(resultsArray, IndexOf(needs, c.originalId)),
                     !.refinedText = ResultAt(resultsArray, IndexOf(needs, c.originalId)),
                     !.status = "completed", !.translationSource = "tm",
                     !.errorMessage = Undefined]
      ELSE c

ApplyResult(needs, resultsArray, c) ==
    IF IndexOf(needs, c.originalId) # 0
      THEN [c EXCEPT !.translatedText = ResultAt(resultsArray, IndexOf(needs, c.originalId)),
                     !.refinedText = ResultAt(resultsArray, IndexOf(needs, c.originalId)),
                     !.status = "completed", !.translationSource = "ai",
                     !.errorMessage = Undefined]
      ELSE c

\* the cues the success updater visits (files with the batch file's id, in order)
RECURSIVE TranslatedCues(_, _, _)
TranslatedCues(fs, fileId, needs) ==
    IF fs = <<>> THEN <<>>
    ELSE (IF Head(fs).id = fileId
            THEN SelectSeq(Head(fs).cues, LAMBDA c : IndexOf(needs, c.originalId) # 0)
            ELSE <<>>) \o TranslatedCues(Tail(fs), fileId, needs)

RECURSIVE PutAll(_, _, _, _)
PutAll(mem, cs, needs, resultsArray) ==
    IF cs = <<>> THEN mem
    ELSE PutAll(MapSet(mem, Normalize(Head(cs).originalText),
                       ResultAt(resultsArray, IndexOf(needs, Head(cs).originalId))),
                Tail(cs), needs, resultsArray)

RECURSIVE SaveAll(_, _, _, _)
SaveAll(store, cs, needs, resultsArray) ==
    IF cs = <<>> THEN store
    ELSE SaveAll(SaveToTM(store, Normalize(Head(cs).originalText),
                          ResultAt(resultsArray, IndexOf(needs, Head(cs).originalId))),
                 Tail(cs), needs, resultsArray)

\* mutant of ErrAction (C6): every failure is handled as a retry
ErrActionRetry(error) == "retry"

\* const errAction = error?.action || 'retry'
ErrAction(error) == IF error.action = "none" THEN "retry" ELSE error.action

MarkError(skipIds, info, c) ==
    IF c.originalId \in skipIds
      THEN [c EXCEPT !.status = "error", !.errorMessage = info.message]
      ELSE c

\* useEffect(() => { if (files.length > 0) setHasUnsavedChanges(true); }, [files]),
\* run by a step that changes the files; the step leaves the stored draft, the
\* restore banner and the library alone
StorageFrame ==
    /\ hasUnsavedChanges' = (hasUnsavedChanges \/ (files' # files /\ Len(files') > 0))
    /\ UNCHANGED <<draft, restoreAvailable, library>>

QuotaWaitSecs == 60

(***************************************************************************)
(* processNext after `await executeWithRotation(task)`: the call of        *)
(* continuation i returns, the stub behaving as `out`.                     *)
(***************************************************************************)
BackendReturn(i, out, rnd) ==
    LET k == pend[i]
        s == k.snap
        needs == k.needs
        needIds == Range(needs)
        res == executeWithRotation(s.settings, keyIndexRef, rnd, out)
        rest == RemoveAt(pend, i)
        done == TranslatedCues(files, k.fileId, needs)
        tick == [Tick(IF res.success THEN "success" ELSE "failure", needs, <<>>, needs,
                      processingQueue, res.error.action)
                    EXCEPT !.results = res.result, !.tried = res.tried]
    IN  /\ keyIndexRef' = res.cursor
        /\ lastTick' = tick
        /\ UNCHANGED <<activeFileId, settings, tmLoading, activeProcessingCueId,
                       lastExec, sent, opsLeft>>
        /\ IF res.success
             THEN /\ isWaitingForQuota' = FALSE
                  /\ files' = MapCues(files, k.fileId,
                              [c \in CuesOf(files) |-> ApplyResult(needs, res.result, c)], TRUE)
                  /\ translationMemory' = PutAll(translationMemory, done, needs, res.result)
                  /\ tmStore' = SaveAll(tmStore, done, needs, res.result)
                  /\ aiDone' = aiDone \cup {done[j].originalId : j \in 1..Len(done)}
                  /\ processingQueue' = Without(processingQueue, needIds)
                  /\ pend' = Append(rest, Cont("timer", s, k.fileId, <<>>, "success"))
                  /\ UNCHANGED <<processing, quotaWaitSeconds>>
           ELSE IF res.threw
             THEN /\ pend' = rest
                  /\ UNCHANGED <<files, translationMemory, tmStore, aiDone, processingQueue,
                                 processing, isWaitingForQuota, quotaWaitSeconds>>
           ELSE IF ErrAction(res.error) = "wait_quota"
             THEN /\ isWaitingForQuota' = TRUE
                  /\ quotaWaitSeconds' = QuotaWaitSecs
                  /\ pend' = Append(rest, Cont("interval", s, k.fileId, <<>>, "wait_quota"))
                  /\ UNCHANGED <<files, translationMemory, tmStore, aiDone, processingQueue,
                                 processing>>
           ELSE IF ErrAction(res.error) = "stop"
             THEN /\ processing' = FALSE
                  /\ pend' = rest
                  /\ UNCHANGED <<files, translationMemory, tmStore, aiDone, processingQueue,
                                 isWaitingForQuota, quotaWaitSeconds>>
           ELSE /\ files' = MapCues(files, k.fileId,
                              [c \in CuesOf(files) |-> MarkError(needIds, res.error, c)], FALSE)
                /\ processingQueue' = Without(processingQueue, needIds)
                /\ pend' = Append(rest, Cont("timer", s, k.fileId, <<>>, ErrAction(res.error)))
                /\ UNCHANGED <<translationMemory, tmStore, aiDone, processing,
                               isWaitingForQuota, quotaWaitSeconds>>
        /\ StorageFrame

\* mutant of EffectReady (C18): the effect does not look at activeProcessingCueId
EffectReadyNotIdle ==
    processing /\ ~isWaitingForQuota /\ processingQueue # <<>>

(***************************************************************************)
(* The start effect, the timers and the quota countdown.                   *)
(***************************************************************************)
\* if (processing && !activeProcessingCueId && !isWaitingForQuota && queue.length > 0)
EffectReady ==
    /\ processing
    /\ activeProcessingCueId = Null
    /\ ~isWaitingForQuota
    /\ processingQueue # <<>>

TickFrame ==
    UNCHANGED <<activeFileId, settings, translationMemory, tmStore, tmLoading,
                keyIndexRef, lastExec, aiDone, opsLeft>>

\* useEffect(() => { if (...) processNext(); }, [...]): the current closure
StartEffect ==
    /\ EffectReady
    /\ ProcessNext(Snapshot, pend, "effect",
                   IF lastTick.kind = "nofile" THEN "nofile" ELSE "none")
    /\ TickFrame
    /\ UNCHANGED <<isWaitingForQuota, quotaWaitSeconds>>
    /\ StorageFrame

\* setTimeout(() => { if (processingRef.current) processNext(); }, delay)
TimerFires(i) ==
    /\ ~EffectReady
    /\ pend[i].kind = "timer"
    /\ IF processing
         THEN ProcessNext(pend[i].snap, RemoveAt(pend, i), "timer", pend[i].after)
         ELSE /\ pend' = RemoveAt(pend, i)
              /\ lastTick' = NoTick
              /\ UNCHANGED <<files, processing, processingQueue, activeProcessingCueId, sent>>
    /\ TickFrame
    /\ UNCHANGED <<isWaitingForQuota, quotaWaitSeconds>>
    /\ StorageFrame

\* `return prev - 1` of the callbacks that run before the last second.  No
\* other code reads quotaWaitSeconds, so every operation commutes with these
\* callbacks: they are taken together, and the operations before or after.
RECURSIVE CountDown(_)
CountDown(prev) == IF prev <= 1 THEN prev ELSE CountDown(prev - 1)

\* setInterval(() => setQuotaWaitSeconds(prev => ...), 1000)
CountdownTick(i) ==
    /\ ~EffectReady
    /\ pend[i].kind = "interval"
    /\ TickFrame
    /\ IF quotaWaitSeconds <= 1
         THEN /\ quotaWaitSeconds' = 0
              /\ IF processing
                   THEN /\ isWaitingForQuota' = FALSE
                        /\ ProcessNext(pend[i].snap, RemoveAt(pend, i), "countdown", pend[i].after)
                   ELSE /\ pend' = RemoveAt(pend, i)
                        /\ lastTick' = NoTick
                        /\ UNCHANGED <<files, processing, processingQueue,
                                       activeProcessingCueId, sent, isWaitingForQuota>>
         ELSE /\ quotaWaitSeconds' = CountDown(quotaWaitSeconds)
              /\ lastTick' = NoTick
              /\ UNCHANGED <<files, processing, processingQueue, activeProcessingCueId,
                             sent, isWaitingForQuota, pend>>
    /\ StorageFrame

\* The answer of a key the rotation does not call, and the array of a rotation
\* in which no key answers, change nothing: one of each is enough.
Consulted(s, cursor, rnd, fails, r, full) ==
    LET res == executeWithRotation(s, cursor, rnd, StubOf(fails, r))
    IN  /\ \A j \in DOMAIN fails : j \notin Range(res.tried) => fails[j] = NoFailure
        /\ ~res.success => r = full

BackendReturns(i) ==
    /\ ~EffectReady
    /\ pend[i].kind = "call"
    /\ \E fails \in [0..(PoolSize(pend[i].snap.settings) - 1) -> BackendErrors \cup {NoFailure}],
          r \in BackendResults(RequestTexts(pend[i])),
          rnd \in RandomStarts(pend[i].snap.settings) :
            /\ Consulted(pend[i].snap.settings, keyIndexRef, rnd, fails, r,
                         [j \in 1..Len(pend[i].needs) |-> BackendText(RequestTexts(pend[i])[j])])
            /\ BackendReturn(i, StubOf(fails, r), rnd)

(***************************************************************************)
(* The user's operations, each enabled when its control is rendered.       *)
(***************************************************************************)
ActiveFileIndex == FindFileById(files, activeFileId)

UserFrame ==
    /\ opsLeft > 0
    /\ opsLeft' = opsLeft - 1
    /\ UNCHANGED <<settings, tmLoading, activeProcessingCueId, keyIndexRef, pend,
                   lastExec, aiDone, sent>>

\* the start button (shown while not processing and not waiting for quota)
AddToQueue ==
    /\ ~EffectReady
    /\ ActiveFileIndex # 0 /\ ~isWaitingForQuota /\ ~processing
    /\ LET file == files[ActiveFileIndex]
           pendingCues == SelectSeq([j \in 1..Len(file.cues) |-> file.cues[j]],
                                    LAMBDA c : c.status \in {"pending", "error"})
           ids == [j \in 1..Len(pendingCues) |-> pendingCues[j].originalId]
       IN processingQueue' = Dedup(processingQueue \o ids)
    /\ processing' = TRUE
    /\ lastTick' = NoTick
    /\ UserFrame
    /\ UNCHANGED <<files, activeFileId, translationMemory, tmStore, isWaitingForQuota,
                   quotaWaitSeconds>>
    /\ StorageFrame

\* the same button while processing: setProcessing(false)
Pause ==
    /\ ~EffectReady
    /\ ActiveFileIndex # 0 /\ ~isWaitingForQuota /\ processing
    /\ processing' = FALSE
    /\ lastTick' = NoTick
    /\ UserFrame
    /\ UNCHANGED <<files, activeFileId, translationMemory, tmStore, processingQueue,
                   isWaitingForQuota, quotaWaitSeconds>>
    /\ StorageFrame

RetryUpd(cueId, c) ==
    IF c.originalId = cueId
      THEN [c EXCEPT !.status = "pending", !.errorMessage = Undefined]
      ELSE c

\* the "Yeniden Cevir" button of a cue of the active file
RetryCue(cueId) ==
    /\ ~EffectReady
    /\ ActiveFileIndex # 0
    /\ \E j \in 1..Len(files[ActiveFileIndex].cues) :
          /\ files[ActiveFileIndex].cues[j].originalId = cueId
          /\ files[ActiveFileIndex].cues[j].status \in {"completed", "translated", "refining"}
    /\ Len(processingQueue) < MaxQueue
    /\ files' = MapCues(files, activeFileId,
                              [c \in CuesOf(files) |-> RetryUpd(cueId, c)], FALSE)
    /\ processingQueue' = <<cueId>> \o processingQueue
    /\ processing' = TRUE
    /\ lastTick' = [NoTick EXCEPT !.kind = "retry", !.batch = <<cueId>>]
    /\ UserFrame
    /\ UNCHANGED <<activeFileId, translationMemory, tmStore, isWaitingForQuota,
                   quotaWaitSeconds>>
    /\ StorageFrame

ManualUpd(cueId, text, c) ==
    IF c.originalId = cueId
      THEN [c EXCEPT !.refinedText = IF Truthy(c.refinedText) THEN text ELSE @,
                     !.translatedText = IF Truthy(c.refinedText) THEN @ ELSE text,
                     !.isLocked = TRUE, !.status = "completed",
                     !.errorMessage = Undefined, !.translationSource = "user"]
      ELSE c

\* typing in the textarea of a cue of the active file (rendered unless the cue
\* is pending or translating)
ManualUpdateCue(cueId, text) ==
    /\ ~EffectReady
    /\ ActiveFileIndex # 0
    /\ \E j \in 1..Len(files[ActiveFileIndex].cues) :
          /\ files[ActiveFileIndex].cues[j].originalId = cueId
          /\ files[ActiveFileIndex].cues[j].status \notin {"pending", "translating"}
    /\ files' = MapCues(files, activeFileId,
                              [c \in CuesOf(files) |-> ManualUpd(cueId, text, c)], FALSE)
    /\ LET cue == FindCue(files[ActiveFileIndex], cueId)
       IN IF text # ""
            THEN /\ translationMemory' =
                        MapSet(translationMemory, Normalize(cue.originalText), text)
                 /\ tmStore' = SaveToTM(tmStore, Normalize(cue.originalText), text)
            ELSE UNCHANGED <<translationMemory, tmStore>>
    /\ lastTick' = NoTick
    /\ UserFrame
    /\ UNCHANGED <<activeFileId, processing, processingQueue, isWaitingForQuota,
                   quotaWaitSeconds>>
    /\ StorageFrame

\* clicking a file of the side bar
SetActiveFile(fileId) ==
    /\ ~EffectReady
    /\ fileId # activeFileId
    /\ FindFileById(files, fileId) # 0
    /\ activeFileId' = fileId
    /\ lastTick' = NoTick
    /\ UserFrame
    /\ UNCHANGED <<files, translationMemory, tmStore, processing, processingQueue,
                   isWaitingForQuota, quotaWaitSeconds>>
    /\ StorageFrame

\* "Simdi Dene" of the quota panel: setQuotaWaitSeconds(1)
TryNow ==
    /\ ~EffectReady
    /\ ActiveFileIndex # 0 /\ isWaitingForQuota
    /\ quotaWaitSeconds' = 1
    /\ lastTick' = NoTick
    /\ UserFrame
    /\ UNCHANGED <<files, activeFileId, translationMemory, tmStore, processing,
                   processingQueue, isWaitingForQuota>>
    /\ StorageFrame

\* loadFullTM().then(map => setTranslationMemory(map)) of the startup effect
LoadFullTM ==
    /\ ~EffectReady
    /\ tmLoading
    /\ tmLoading' = FALSE
    /\ translationMemory' = tmStore
    /\ lastTick' = NoTick
    /\ UNCHANGED <<files, activeFileId, settings, tmStore, processing, processingQueue,
                   activeProcessingCueId, isWaitingForQuota, quotaWaitSeconds,
                   keyIndexRef, pend, lastExec, aiDone, sent, opsLeft>>
    /\ StorageFrame

(***************************************************************************)
(* Initial states: the subtitle files have been uploaded (every cue        *)
(* pending), the settings come from localStorage, the memory store holds   *)
(* what earlier sessions saved.                                            *)
(***************************************************************************)
Cue3(t1, t2, t3) == <<NewCue("c1", t1), NewCue("c2", t2), NewCue("c3", t3)>>

OneFile(t1, t2, t3) == <<NewFile("f1", Cue3(t1, t2, t3))>>

TwoFiles(t1, t2, t3) ==
    <<NewFile("f1", <<NewCue("c1", t1), NewCue("c2", t2)>>),
      NewFile("f2", <<NewCue("c3", t3)>>)>>

NoEntries == <<>>       \* an empty glossary, an empty memory

\* the uploaded files with the stored glossary and the stored memory
Scenarios ==
    { [files |-> OneFile(TxtAbSp, TxtAb, TxtYo), glossary |-> NoEntries,
       store |-> NoEntries],
      [files |-> OneFile(TxtAbSp, TxtYo, TxtOk), glossary |-> (<<"A", "b">> :> "G"),
       store |-> (<<"y", "o">> :> "M")],
      [files |-> TwoFiles(TxtAbSp, TxtYo, TxtAb), glossary |-> NoEntries,
       store |-> (<<"a", "b">> :> "M")] }

AllKeys == <<"k1", "k2", "k3", "k4">>

\* the stored settings; a random start differs from the cursor only in a pool
\* of two or more
InitialSettings(glossary) ==
    {st \in [apiKeys : {SubSeq(AllKeys, 1, n) : n \in 0..MaxKeys},
             keySelectionStrategy : {"sequential", "random"},
             batchSize : 1..MaxBatch,
             glossary : {glossary}] :
        st.keySelectionStrategy = "random" => Len(st.apiKeys) >= 2}

NoExec ==
    [n |-> 0, cursorBefore |-> 0, strategy |-> "none", out |-> <<>>,
     res |-> [success |-> FALSE, result |-> <<>>, error |-> NoError, tried |-> <<>>,
              cursor |-> 0, threw |-> FALSE]]

\* the state after the first render, the user having budget operations to perform
InitOps(budget) ==
    /\ \E sc \in Scenarios :
          /\ files = sc.files
          /\ settings \in InitialSettings(sc.glossary)
          /\ tmStore = sc.store
    /\ activeFileId = "f1"
    /\ translationMemory = NoEntries
    /\ tmLoading = TRUE
    /\ processing = FALSE
    /\ processingQueue = <<>>
    /\ activeProcessingCueId = Null
    /\ isWaitingForQuota = FALSE
    /\ quotaWaitSeconds = 0
    /\ keyIndexRef = 0
    /\ pend = <<>>
    /\ lastTick = NoTick
    /\ lastExec = NoExec
    /\ aiDone = {}
    /\ sent = {}
    /\ opsLeft = budget
    /\ hasUnsavedChanges = TRUE
    /\ draft = NoDraft
    /\ restoreAvailable = FALSE
    /\ library = {}

Init == InitOps(MaxUserOps)

Next ==
    \/ StartEffect
    \/ \E i \in 1..Len(pend) : TimerFires(i)
    \/ \E i \in 1..Len(pend) : CountdownTick(i)
    \/ \E i \in 1..Len(pend) : BackendReturns(i)
    \/ AddToQueue
    \/ Pause
    \/ \E c \in {"c1", "c2", "c3"} : RetryCue(c)
    \/ \E c \in {"c1", "c2", "c3"}, text \in UserTexts : ManualUpdateCue(c, text)
    \/ \E f \in {"f1", "f2"} : SetActiveFile(f)
    \/ TryNow
    \/ LoadFullTM

Spec == Init /\ [][Next]_vars

(***************************************************************************)
(* executeWithRotation on its own: any task, called again and again, the   *)
(* cursor kept from one call to the next.                                  *)
(***************************************************************************)
\* what taskFn(key) does with one key: it returns, or it raises an error
\* failure values without a usable message: { error: { code: 404 } } (the nested
\* message is undefined), a bare string and {} (both go through JSON.stringify)
ErrNoMessage == ErrorValue("error", 0, 404, FALSE, {})
ErrBareString == ErrorValue("string", 0, 0, TRUE, {})
ErrEmptyObject == ErrorValue("object", 0, 0, TRUE, {})
OddErrors == {ErrNoMessage, ErrBareString, ErrEmptyObject}

TaskOutcomes == {Ok(<<"T">>)} \cup {Fail(e) : e \in BackendErrors \cup OddErrors}

CallExecuteWithRotation ==
    \E out \in [0..(PoolSize(settings) - 1) -> TaskOutcomes],
       rnd \in RandomStarts(settings) :
        LET res == executeWithRotation(settings, keyIndexRef, rnd, out)
        IN  /\ keyIndexRef' = res.cursor
            /\ lastExec' = [n |-> PoolSize(settings), cursorBefore |-> keyIndexRef,
                            strategy |-> settings.keySelectionStrategy,
                            out |-> out, res |-> res]
            /\ UNCHANGED <<files, activeFileId, settings, translationMemory, tmStore,
                           tmLoading, processing, processingQueue, activeProcessingCueId,
                           isWaitingForQuota, quotaWaitSeconds, pend, lastTick, aiDone,
                           sent, opsLeft>>
            /\ StorageFrame

InitRot == Init /\ tmStore = NoEntries /\ settings.batchSize = 1

NextRot == CallExecuteWithRotation

SpecRot == InitRot /\ [][NextRot]_vars

(***************************************************************************)
(* analyzeError alone: executeWithRotation is called with a task that      *)
(* fails in the same way with every key, so that the call returns the      *)
(* classification of that failure.  The failures are the combinations of   *)
(* a status (at the top level or as the nested code) and of the keywords   *)
(* the message includes.                                                   *)
(***************************************************************************)
ClassifyStatuses == {0, 400, 403, 429, 503}
ClassifyWords == {"quota", "api key", "permission", "safety", "network"}

ClassifyInputs ==
    {ErrorValue("message", st, 0, TRUE, w) :
        st \in ClassifyStatuses, w \in SUBSET ClassifyWords}
    \cup {ErrorValue("error", 0, st, TRUE, w) :
        st \in ClassifyStatuses, w \in SUBSET ClassifyWords}

ClassifyFailure ==
    \E e \in ClassifyInputs, rnd \in RandomStarts(settings) :
        LET out == [j \in 0..(PoolSize(settings) - 1) |-> Fail(e)]
            res == executeWithRotation(settings, keyIndexRef, rnd, out)
        IN  /\ keyIndexRef' = res.cursor
            /\ lastExec' = [n |-> PoolSize(settings), cursorBefore |-> keyIndexRef,
                            strategy |-> settings.keySelectionStrategy,
                            out |-> out, res |-> res]
            /\ UNCHANGED <<files, activeFileId, settings, translationMemory, tmStore,
                           tmLoading, processing, processingQueue, activeProcessingCueId,
                           isWaitingForQuota, quotaWaitSeconds, pend, lastTick, aiDone,
                           sent, opsLeft>>
            /\ StorageFrame

NextClassify == ClassifyFailure

SpecClassify == InitRot /\ [][NextClassify]_vars

(***************************************************************************)
(* The engine left alone: the user starts it once, every backend call is   *)
(* answered by its first key with an array of the requested length.        *)
(***************************************************************************)
\* the array of the requested length
FullResult(k) == [j \in 1..Len(k.needs) |-> BackendText(RequestTexts(k)[j])]

BackendSucceeds(i) ==
    /\ ~EffectReady
    /\ pend[i].kind = "call"
    /\ \E rnd \in RandomStarts(pend[i].snap.settings) :
          BackendReturn(i, [j \in 0..(PoolSize(pend[i].snap.settings) - 1) |->
                                Ok(FullResult(pend[i]))], rnd)

FirstStart == opsLeft = MaxUserOps /\ AddToQueue

NextHappy ==
    \/ StartEffect
    \/ \E i \in 1..Len(pend) : TimerFires(i)
    \/ \E i \in 1..Len(pend) : BackendSucceeds(i)
    \/ FirstStart
    \/ LoadFullTM

SpecHappy == Init /\ [][NextHappy]_vars

(***************************************************************************)
(* A longer session of the user on one configuration: two files, one key,  *)
(* batches of one.                                                         *)
(***************************************************************************)
InitLong ==
    /\ InitOps(MaxUserOps + 2)
    /\ Len(files) = 2
    /\ Len(settings.apiKeys) = 1
    /\ settings.batchSize = 1

SpecLong == InitLong /\ [][Next]_vars

(***************************************************************************)
(* The engine started on a queue that holds cues of two files in any order *)
(* (start pressed on each file while no key was configured, retryCue       *)
(* prepending a cue of a file loaded from the library, then the keys       *)
(* entered and start pressed again); every call succeeds.                  *)
(***************************************************************************)
RECURSIVE QueuesOf(_, _)
QueuesOf(ids, n) ==
    IF n = 0 THEN {<<>>}
    ELSE LET shorter == QueuesOf(ids, n - 1)
         IN shorter \cup {Append(q, id) : q \in shorter, id \in ids}

InitQueue ==
    /\ files = TwoFiles(TxtAbSp, TxtYo, TxtAb)
    /\ settings \in {st \in InitialSettings(NoEntries) : Len(st.apiKeys) >= 1}
    /\ tmStore = NoEntries
    /\ activeFileId = "f1"
    /\ translationMemory = NoEntries
    /\ tmLoading = FALSE
    /\ processing = TRUE
    /\ processingQueue \in {q \in QueuesOf(CueIds(files[1]) \cup CueIds(files[2]), MaxQueue) :
                               q # <<>> /\ Cardinality(Range(q)) = Len(q)}
    /\ activeProcessingCueId = Null
    /\ isWaitingForQuota = FALSE
    /\ quotaWaitSeconds = 0
    /\ keyIndexRef = 0
    /\ pend = <<>>
    /\ lastTick = NoTick
    /\ lastExec = NoExec
    /\ aiDone = {}
    /\ sent = {}
    /\ opsLeft = 0
    /\ hasUnsavedChanges = TRUE
    /\ draft = NoDraft
    /\ restoreAvailable = FALSE
    /\ library = {}

NextQueue ==
    \/ StartEffect
    \/ \E i \in 1..Len(pend) : TimerFires(i)
    \/ \E i \in 1..Len(pend) : BackendSucceeds(i)

SpecQueue == InitQueue /\ [][NextQueue]_vars

(***************************************************************************)
(* The engine started on a file whose cues are found in several memory     *)
(* tiers at once: ' Ab' in the glossary ('Ab') and in the Translation      *)
(* Memory ('ab'), 'Ok?' in the glossary, in the Translation Memory ('ok?') *)
(* and in the static cache ('ok').                                         *)
(***************************************************************************)
LookupGlossaries ==
    {NoEntries, (<<"A", "b">> :> "G"),
     (<<"A", "b">> :> "G") @@ (<<"O", "k", "?">> :> "G")}

LookupMemories ==
    {NoEntries, (<<"a", "b">> :> "M"), (<<"o", "k", "?">> :> "M"),
     (<<"a", "b">> :> "M") @@ (<<"o", "k", "?">> :> "M")}

InitLookup ==
    /\ files = OneFile(TxtAbSp, TxtOk, TxtYo)
    /\ \E g \in LookupGlossaries :
          settings \in {st \in InitialSettings(g) : Len(st.apiKeys) >= 1}
    /\ translationMemory \in LookupMemories
    /\ tmStore = translationMemory
    /\ tmLoading = FALSE
    /\ activeFileId = "f1"
    /\ processing = TRUE
    /\ processingQueue = <<"c1", "c2", "c3">>
    /\ activeProcessingCueId = Null
    /\ isWaitingForQuota = FALSE
    /\ quotaWaitSeconds = 0
    /\ keyIndexRef = 0
    /\ pend = <<>>
    /\ lastTick = NoTick
    /\ lastExec = NoExec
    /\ aiDone = {}
    /\ sent = {}
    /\ opsLeft = 0
    /\ hasUnsavedChanges = TRUE
    /\ draft = NoDraft
    /\ restoreAvailable = FALSE
    /\ library = {}

SpecLookup == InitLookup /\ [][NextQueue]_vars

(***************************************************************************)
(* Idiom analysis beside the engine: the user starts the engine once,      *)
(* every translation call succeeds, and the user runs the idiom analysis   *)
(* of cues of the active file, which succeeds or fails.                    *)
(***************************************************************************)
SetStatus(cueId, status, c) ==
    IF c.originalId = cueId THEN [c EXCEPT !.status = status] ELSE c

\* the idiom button of a cue of the active file (disabled while the cue is
\* analyzing_idioms), up to `await analyzeIdioms(...)`
HandleIdiomAnalysis(cueId) ==
    /\ ~EffectReady
    /\ Len(settings.apiKeys) >= 1
    /\ ActiveFileIndex # 0
    /\ \E j \in 1..Len(files[ActiveFileIndex].cues) :
          /\ files[ActiveFileIndex].cues[j].originalId = cueId
          /\ files[ActiveFileIndex].cues[j].status # "analyzing_idioms"
    /\ opsLeft > 0
    /\ opsLeft' = opsLeft - 1
    /\ files' = MapCues(files, activeFileId,
                    [c \in CuesOf(files) |-> SetStatus(cueId, "analyzing_idioms", c)], FALSE)
    /\ pend' = Append(pend, Cont("idiom", Snapshot, activeFileId, <<cueId>>, "none"))
    /\ lastTick' = [NoTick EXCEPT !.kind = "idiom", !.batch = <<cueId>>,
                                  !.action = "analyzing_idioms",
                                  !.before = FindCue(files[ActiveFileIndex], cueId).status]
    /\ UNCHANGED <<activeFileId, settings, translationMemory, tmStore, tmLoading,
                   processing, processingQueue, activeProcessingCueId,
                   isWaitingForQuota, quotaWaitSeconds, keyIndexRef, lastExec,
                   aiDone, sent>>
    /\ StorageFrame

\* handleIdiomAnalysis after the await: the analysis has answered or failed
IdiomReturns(i) ==
    /\ ~EffectReady
    /\ pend[i].kind = "idiom"
    /\ \E status \in {"translated", "error"} :
          /\ files' = MapCues(files, pend[i].fileId,
                          [c \in CuesOf(files) |-> SetStatus(pend[i].needs[1], status, c)],
                          FALSE)
          /\ lastTick' = [NoTick EXCEPT
                            !.kind = "idiom", !.batch = pend[i].needs, !.action = status,
                            !.before = FindCue(pend[i].snap.files[
                                                  FindFileById(pend[i].snap.files, pend[i].fileId)],
                                               pend[i].needs[1]).status]
    /\ pend' = RemoveAt(pend, i)
    /\ UNCHANGED <<activeFileId, settings, translationMemory, tmStore, tmLoading,
                   processing, processingQueue, activeProcessingCueId,
                   isWaitingForQuota, quotaWaitSeconds, keyIndexRef, lastExec,
                   aiDone, sent, opsLeft>>
    /\ StorageFrame

NextIdiom ==
    \/ NextHappy
    \/ \E cueId \in CueIds(files[1]) : HandleIdiomAnalysis(cueId)
    \/ \E i \in 1..Len(pend) : IdiomReturns(i)

SpecIdiom == Init /\ [][NextIdiom]_vars

(***************************************************************************)
(* The startup hydration in its two steps.  loadFullTM fills a Map from a  *)
(* cursor over the store and resolves; the effect's then-callback replaces *)
(* the in-memory Translation Memory by that Map.  What is put between the  *)
(* end of the cursor and the callback is in the store and not in the Map.  *)
(***************************************************************************)
HydrationRead == {i \in 1..Len(pend) : pend[i].kind = "hydrate"}

\* the cursor of loadFullTM has reached its end: resolve(map)
LoadFullTMReads ==
    /\ ~EffectReady
    /\ tmLoading /\ HydrationRead = {}
    /\ pend' = Append(pend, Cont("hydrate", [Snapshot EXCEPT !.translationMemory = tmStore],
                                 Null, <<>>, "none"))
    /\ lastTick' = NoTick
    /\ UNCHANGED <<files, activeFileId, settings, translationMemory, tmStore, tmLoading,
                   processing, processingQueue, activeProcessingCueId, isWaitingForQuota,
                   quotaWaitSeconds, keyIndexRef, lastExec, aiDone, sent, opsLeft>>
    /\ StorageFrame

\* .then(map => { setTranslationMemory(map); ... })
LoadFullTMResolves(i) ==
    /\ ~EffectReady
    /\ pend[i].kind = "hydrate"
    /\ translationMemory' = pend[i].snap.translationMemory
    /\ tmLoading' = FALSE
    /\ pend' = RemoveAt(pend, i)
    /\ lastTick' = [NoTick EXCEPT !.kind = "hydrated"]
    /\ UNCHANGED <<files, activeFileId, settings, tmStore, processing, processingQueue,
                   activeProcessingCueId, isWaitingForQuota, quotaWaitSeconds,
                   keyIndexRef, lastExec, aiDone, sent, opsLeft>>
    /\ StorageFrame

\* the user starts the engine once and edits cues; every call succeeds
NextHydrate ==
    \/ StartEffect
    \/ \E i \in 1..Len(pend) : TimerFires(i)
    \/ \E i \in 1..Len(pend) : BackendSucceeds(i)
    \/ FirstStart
    \/ \E c \in {"c1", "c2", "c3"}, text \in UserTexts : ManualUpdateCue(c, text)
    \/ LoadFullTMReads
    \/ \E i \in 1..Len(pend) : LoadFullTMResolves(i)

SpecHydrate == Init /\ [][NextHydrate]_vars

(***************************************************************************)
(* The whole session on one configuration (two files, one key, batches of  *)
(* one): the engine with failing calls, every operation of the user, and   *)
(* the idiom analysis.                                                     *)
(***************************************************************************)
InitSession ==
    /\ Init
    /\ Len(files) = 2
    /\ Len(settings.apiKeys) = 1
    /\ settings.batchSize = 1

NextSession ==
    \/ Next
    \/ \E cueId \in {"c1", "c2", "c3"} : HandleIdiomAnalysis(cueId)
    \/ \E i \in 1..Len(pend) : IdiomReturns(i)

SpecSession == InitSession /\ [][NextSession]_vars

(***************************************************************************)
(* The project around the engine: files are uploaded, restored from the    *)
(* draft of the autosave and loaded from the library; the settings dialog  *)
(* saves settings; the autosave interval writes the draft.                 *)
(***************************************************************************)
\* the saves of the draft in progress (await saveDraftToDB(...))
SavesInProgress == {i \in 1..Len(pend) : pend[i].kind = "save"}

\* the identifiers in use, of files and of cues, in memory and in storage
UsedIds(fs) ==
    {fs[i].id : i \in 1..Len(fs)} \cup UNION {CueIds(fs[i]) : i \in 1..Len(fs)}

StoredIds ==
    UsedIds(draft.files)
        \cup {f.id : f \in library} \cup UNION {CueIds(f) : f \in library}

\* the files the user has on disk; parseSubtitleFile gives the file and each
\* of its cues a new UUID, so a parsed file shares no identifier with any other
Uploads == {TwoFiles(TxtAbSp, TxtYo, TxtAb)[1], TwoFiles(TxtAbSp, TxtYo, TxtAb)[2]}

\* processFiles, for one file chosen in the file input
ProcessFiles(newFile) ==
    /\ ~EffectReady
    /\ UsedIds(<<newFile>>) \cap (UsedIds(files) \cup StoredIds) = {}
    /\ files' = Append(files, newFile)
    /\ activeFileId' = IF activeFileId = Null THEN newFile.id ELSE activeFileId
    /\ lastTick' = NoTick
    /\ UserFrame
    /\ UNCHANGED <<translationMemory, tmStore, processing, processingQueue,
                   isWaitingForQuota, quotaWaitSeconds>>
    /\ StorageFrame

\* the "Kurtar" button of the restore banner
RestoreDraft ==
    /\ ~EffectReady
    /\ restoreAvailable
    /\ restoreAvailable' = FALSE
    /\ IF draft.stored
         THEN /\ files' = draft.files
              /\ activeFileId' = IF Len(draft.files) > 0 THEN draft.files[1].id
                                                        ELSE activeFileId
         ELSE UNCHANGED <<files, activeFileId>>
    /\ hasUnsavedChanges' = (hasUnsavedChanges \/ (files' # files /\ Len(files') > 0))
    /\ lastTick' = NoTick
    /\ UserFrame
    /\ UNCHANGED <<translationMemory, tmStore, processing, processingQueue,
                   isWaitingForQuota, quotaWaitSeconds, draft, library>>

\* the "Kutuphaneye Kaydet" button: store.put(item), the key being the file's id
HandleSaveToLibrary ==
    /\ ~EffectReady
    /\ ActiveFileIndex # 0
    /\ library' = {f \in library : f.id # activeFileId} \cup {files[ActiveFileIndex]}
    /\ library' # library
    /\ lastTick' = NoTick
    /\ UserFrame
    /\ UNCHANGED <<files, activeFileId, translationMemory, tmStore, processing,
                   processingQueue, isWaitingForQuota, quotaWaitSeconds,
                   hasUnsavedChanges, draft, restoreAvailable>>

\* an item of the library dialog is chosen
HandleLoadFromLibrary(file) ==
    /\ ~EffectReady
    /\ file \in library
    /\ files' = Append(files, file)
    /\ activeFileId' = file.id
    /\ lastTick' = NoTick
    /\ UserFrame
    /\ UNCHANGED <<translationMemory, tmStore, processing, processingQueue,
                   isWaitingForQuota, quotaWaitSeconds>>
    /\ StorageFrame

\* onSave of the settings dialog: setSettings(s)
SaveSettings(s) ==
    /\ ~EffectReady
    /\ s # settings
    /\ settings' = s
    /\ opsLeft > 0
    /\ opsLeft' = opsLeft - 1
    /\ lastTick' = NoTick
    /\ UNCHANGED <<files, activeFileId, translationMemory, tmStore, tmLoading, processing,
                   processingQueue, activeProcessingCueId, isWaitingForQuota,
                   quotaWaitSeconds, keyIndexRef, pend, lastExec, aiDone, sent>>
    /\ StorageFrame

\* the callback of the autosave interval, up to `await saveDraftToDB(...)`:
\* localStorage.setItem has written the draft.  JSON leaves out a property
\* that is undefined and the reader gets undefined for it, which the value
\* Undefined of a field stands for, so the stored draft is the files.
AutosaveFires ==
    /\ ~EffectReady
    /\ Len(files) > 0 /\ hasUnsavedChanges
    /\ SavesInProgress = {}
    /\ draft' = DraftOf(files)
    /\ pend' = Append(pend, Cont("save", Snapshot, Null, <<>>, "none"))
    /\ lastTick' = [NoTick EXCEPT !.kind = "saving"]
    /\ UNCHANGED <<files, activeFileId, settings, translationMemory, tmStore, tmLoading,
                   processing, processingQueue, activeProcessingCueId, isWaitingForQuota,
                   quotaWaitSeconds, keyIndexRef, lastExec, aiDone, sent, opsLeft,
                   hasUnsavedChanges, restoreAvailable, library>>

\* the callback after the await: the write has succeeded (setHasUnsavedChanges(false))
\* or failed (setSaveStatus('error'))
AutosaveWritten(i) ==
    /\ ~EffectReady
    /\ pend[i].kind = "save"
    /\ \E ok \in BOOLEAN :
          /\ hasUnsavedChanges' = IF ok THEN FALSE ELSE hasUnsavedChanges
          /\ lastTick' = [NoTick EXCEPT !.kind = IF ok THEN "saved" ELSE "save failed"]
    /\ pend' = RemoveAt(pend, i)
    /\ UNCHANGED <<files, activeFileId, settings, translationMemory, tmStore, tmLoading,
                   processing, processingQueue, activeProcessingCueId, isWaitingForQuota,
                   quotaWaitSeconds, keyIndexRef, lastExec, aiDone, sent, opsLeft,
                   draft, restoreAvailable, library>>

\* the draft an earlier session has left
EarlierDraft == DraftOf(<<NewFile("f3", <<NewCue("c4", TxtYo)>>)>>)

\* the application after its first render: no file, the memory loaded, a
\* draft of an earlier session or none, zero or one API key
InitProject ==
    /\ files = <<>>
    /\ activeFileId = Null
    /\ settings \in {st \in InitialSettings(NoEntries) :
                        Len(st.apiKeys) <= 1 /\ st.batchSize = 1}
    /\ tmStore = NoEntries
    /\ translationMemory = NoEntries
    /\ tmLoading = FALSE
    /\ processing = FALSE
    /\ processingQueue = <<>>
    /\ activeProcessingCueId = Null
    /\ isWaitingForQuota = FALSE
    /\ quotaWaitSeconds = 0
    /\ keyIndexRef = 0
    /\ pend = <<>>
    /\ lastTick = NoTick
    /\ lastExec = NoExec
    /\ aiDone = {}
    /\ sent = {}
    /\ opsLeft = MaxUserOps + 2
    /\ hasUnsavedChanges = FALSE
    /\ draft \in {NoDraft, EarlierDraft}
    /\ restoreAvailable = draft.stored
    /\ library = {}

NextProject ==
    \/ StartEffect
    \/ \E i \in 1..Len(pend) : TimerFires(i)
    \/ \E i \in 1..Len(pend) : BackendSucceeds(i)
    \/ AddToQueue
    \/ \E newFile \in Uploads : ProcessFiles(newFile)
    \/ RestoreDraft
    \/ HandleSaveToLibrary
    \/ \E file \in library : HandleLoadFromLibrary(file)
    \/ \E s \in {st \in InitialSettings(NoEntries) :
                    Len(st.apiKeys) <= 1 /\ st.batchSize = 1} : SaveSettings(s)
    \/ AutosaveFires
    \/ \E i \in 1..Len(pend) : AutosaveWritten(i)

SpecProject == InitProject /\ [][NextProject]_vars

(***************************************************************************)
(* The claims.  lastTick describes the step of the engine just taken: a    *)
(* tick up to its backend call ("call"), a tick served from memory         *)
(* ("hits"), or the return of a backend call ("success", "failure").       *)
(***************************************************************************)
\* the cue of an identifier, in the files as they are now
CueOf(id) == FindCue(files[FindFile(files, id)], id)

TickStarted == lastTick.kind \in {"call", "hits"}

\* C1: in a tick, a cue of the batch whose trimmed text is a glossary key or
\* whose trimmed, lower-cased text is a Translation Memory key is not part of
\* the backend request, and is completed with source 'tm' after the tick.
C1_MemoryHitNeverSent ==
    TickStarted =>
        \A j \in 1..Len(lastTick.batch) :
            LET cue == CueOf(lastTick.batch[j])
            IN  (\/ Trim(cue.originalText) \in DOMAIN settings.glossary
                 \/ Normalize(cue.originalText) \in DOMAIN translationMemory)
                  => /\ cue.originalId \notin Range(lastTick.needs)
                     /\ cue.status = "completed"
                     /\ cue.translationSource = "tm"

\* C2: once the backend has translated a cue, a later tick whose batch holds
\* another cue of the same normalized text serves that cue from memory and
\* sends no request for it.
C2_SecondSubmissionHitsMemory ==
    TickStarted =>
        \A j \in 1..Len(lastTick.batch) :
            LET cue == CueOf(lastTick.batch[j])
            IN  (\E id \in aiDone :
                    /\ id # cue.originalId
                    /\ Normalize(CueOf(id).originalText) = Normalize(cue.originalText))
                  => /\ cue.originalId \in Range(lastTick.hits)
                     /\ cue.originalId \notin Range(lastTick.needs)

\* C3: a translate-batch request of n > 1 texts answered by an array of another
\* length is a failure: it does not go through the success branch, so a
\* success step of a request of n > 1 cues holds n results, and none of its
\* cues has an undefined translation, nor the memory an undefined entry.
C3_MismatchIsFailure ==
    (lastTick.kind = "success" /\ Len(lastTick.needs) > 1) =>
        /\ Len(lastTick.results) = Len(lastTick.needs)
        /\ \A j \in 1..Len(lastTick.needs) :
              /\ CueOf(lastTick.needs[j]).translatedText # Undefined
              /\ Lookup(translationMemory,
                        Normalize(CueOf(lastTick.needs[j]).originalText)) # Undefined

\* the last call ran on a pool of n keys, sequentially from the first key, the
\* task failing with a quota error on all keys but the last, which answers
FailoverCase ==
    /\ lastExec.n >= 1
    /\ lastExec.strategy = "sequential"
    /\ lastExec.cursorBefore = 0
    /\ \A j \in 0..(lastExec.n - 2) :
          /\ ~lastExec.out[j].ok
          /\ analyzeError(lastExec.out[j].error).action = "wait_quota"
    /\ lastExec.out[lastExec.n - 1].ok

\* C4: in that case the call has invoked the task once per key, in rotation
\* order, returns success, and leaves the cursor on the first key again.
C4_Failover ==
    FailoverCase =>
        /\ lastExec.res.success
        /\ lastExec.res.tried = [j \in 1..lastExec.n |-> j - 1]
        /\ lastExec.res.result = lastExec.out[lastExec.n - 1].result
        /\ keyIndexRef = 0

\* C4 (witness): the case with two keys or more
C4_FailoverReached == FailoverCase /\ lastExec.n >= 2 /\ lastExec.res.success

\* the attempt at position p of the last call failed with a stop classification
StoppedAt(p) ==
    /\ ~lastExec.out[lastExec.res.tried[p]].ok
    /\ analyzeError(lastExec.out[lastExec.res.tried[p]].error).action = "stop"

\* C5: an attempt that fails with a stop classification is the last attempt of
\* the call, which returns failure with that classification, whatever the pool
\* and the other keys.
C5_StopPropagation ==
    \A p \in 1..Len(lastExec.res.tried) :
        StoppedAt(p) =>
            /\ p = Len(lastExec.res.tried)
            /\ ~lastExec.res.success
            /\ lastExec.res.error = analyzeError(lastExec.out[lastExec.res.tried[p]].error)
            /\ keyIndexRef = lastExec.cursorBefore

\* C5 (witness): the first key stops the call, the other key would have answered
C5_StopReached ==
    /\ lastExec.n >= 2
    /\ Len(lastExec.res.tried) = 1
    /\ StoppedAt(1)
    /\ \E j \in 0..(lastExec.n - 1) : lastExec.out[j].ok

C7_QueueHasNoDuplicates == Cardinality(Range(processingQueue)) = Len(processingQueue)

\* C8: with the user starting the engine once and every backend call answered
\* with an array of the right length, no request is submitted to the backend
\* a second time.
C8_NoBatchSubmittedTwice == lastTick.kind = "call" => ~lastTick.again

\* C9: a tick whose batch is all memory hits sends nothing, leaves the queue
\* without the batch identifiers (the rest in order), and schedules a tick that
\* reads that shortened queue.
C9_AllHitsTick ==
    lastTick.kind = "hits" =>
        /\ lastTick.needs = <<>>
        /\ processingQueue = Without(lastTick.queueBefore, Range(lastTick.batch))
        /\ \E i \in 1..Len(pend) :
              /\ pend[i].kind = "timer"
              /\ pend[i].snap.processingQueue = processingQueue

\* C10: after a backend call has succeeded, every cue of the request is
\* completed with source 'ai', its translated and refined text are the result
\* at its position in the request, it has no error message, its normalized
\* text is a key of the memory (with the result of a cue of that text), and the
\* queue is the queue before without exactly the identifiers of the request.
C10_SuccessEffects ==
    lastTick.kind = "success" =>
        /\ \A j \in 1..Len(lastTick.needs) :
              LET cue == CueOf(lastTick.needs[j])
                  key == Normalize(cue.originalText)
              IN  /\ cue.status = "completed"
                  /\ cue.translationSource = "ai"
                  /\ cue.errorMessage = Undefined
                  /\ cue.refinedText = cue.translatedText
                  /\ j <= Len(lastTick.results) => cue.translatedText = lastTick.results[j]
                  /\ key \in DOMAIN translationMemory
                  /\ \E k \in 1..Len(lastTick.needs) :
                        /\ Normalize(CueOf(lastTick.needs[k]).originalText) = key
                        /\ translationMemory[key] = ResultAt(lastTick.results, k)
        /\ processingQueue = Without(lastTick.queueBefore, Range(lastTick.needs))

\* C10 (witness): a request of two cues answered with two results, a third
\* cue left in the queue
C10_SuccessReached ==
    /\ lastTick.kind = "success"
    /\ Len(lastTick.needs) = 2
    /\ Len(lastTick.results) = 2
    /\ processingQueue # <<>>
    /\ Len(lastTick.queueBefore) = Len(processingQueue) + 2


\* C11: once manualUpdateCue has locked a cue with the user's text (source
\* 'user') and the memory holds that text under the cue's normalized source text,
\* a later tick whose batch holds another cue of the same normalized source
\* text serves that cue from memory and sends no request for it.
C11_EditReusedByLaterTick ==
    TickStarted =>
        \A j \in 1..Len(lastTick.batch) :
            LET cue == CueOf(lastTick.batch[j])
            IN  (\E other \in CuesOf(files) :
                    /\ other.originalId # cue.originalId
                    /\ other.translationSource = "user"
                    /\ other.isLocked
                    /\ Normalize(other.originalText) = Normalize(cue.originalText)
                    /\ Lookup(translationMemory, Normalize(cue.originalText))
                          = other.translatedText)
                  => /\ cue.originalId \in Range(lastTick.hits)
                     /\ cue.originalId \notin Range(lastTick.needs)


\* C12: the batch a tick selects holds at least one and at most batchSize cue
\* ids, all of them (and so all the texts of its backend call) cues of one
\* file, the file that holds the head of the queue the tick reads.
C12_BatchOfOneFile ==
    TickStarted =>
        /\ Len(lastTick.batch) >= 1
        /\ Len(lastTick.batch) <= settings.batchSize
        /\ \E i \in 1..Len(files) :
              /\ Head(lastTick.read) \in CueIds(files[i])
              /\ Range(lastTick.batch) \subseteq CueIds(files[i])
              /\ Range(lastTick.needs) \subseteq CueIds(files[i])

\* a tick has selected a full batch of two from a queue that also holds a cue
\* of the other file
C12_TwoFileQueueReached ==
    /\ TickStarted
    /\ lastTick.by = "effect"
    /\ Len(lastTick.batch) = 2
    /\ \E i, j \in 1..Len(files) :
          /\ i # j
          /\ Range(lastTick.read) \cap CueIds(files[i]) # {}
          /\ Range(lastTick.read) \cap CueIds(files[j]) # {}

\* C13: the batch a tick selects is a contiguous prefix of the queue it reads:
\* collection stops at the first queue entry that belongs to another file.
C13_BatchIsQueuePrefix ==
    TickStarted =>
        lastTick.batch = SubSeq(lastTick.read, 1, Len(lastTick.batch))


\* C14: a tick that runs while the queue is empty changes nothing in the
\* files and the queue, starts no backend call and leaves the engine not
\* running (it is the tick that ends a run and logs its completion).
C14_EmptyQueueTickStops ==
    (lastTick.by \in {"effect", "timer", "countdown"} /\ lastTick.queueBefore = <<>>)
        => /\ lastTick.kind = "finished"
           /\ lastTick.needs = <<>>
           /\ ~processing
           /\ processingQueue = <<>>
           /\ \A c \in CuesOf(files) : c.status # "translating"


\* C15: a backend failure that is not classified 'stop' leaves the running
\* flag as it was, and the tick that follows a wait_quota, skip or retry
\* failure picks up the cues still in the queue, starting with its head.
C15_OnlyStopHalts ==
    [][/\ (lastTick'.kind = "failure" /\ lastTick' # lastTick /\ lastTick'.action # "stop")
              => processing' = processing
       /\ (/\ lastTick'.kind \in {"call", "hits"}
           /\ lastTick'.after \in {"wait_quota", "skip", "retry"}
           /\ lastTick'.queueBefore # <<>>)
              => Head(lastTick'.batch) = Head(lastTick'.queueBefore)]_vars


\* C16: analyzeError returns a classification for every failure value (it
\* never throws), so that no failure escapes executeWithRotation: the call
\* ends with a result or a classified error.
C16_NoFailureEscapes ==
    /\ \A j \in DOMAIN lastExec.out :
          ~lastExec.out[j].ok => analyzeError(lastExec.out[j].error).action # "throws"
    /\ ~lastExec.res.threw


\* C17: in every reachable state the progress of each file is the rounded
\* percentage of its cues whose status is completed.
C17_ProgressMatchesCues ==
    \A i \in 1..Len(files) : files[i].progress = Progress(files[i].cues)


CallsOutstanding == Cardinality({i \in 1..Len(pend) : pend[i].kind = "call"})

\* C18: at most one tick is in flight: the engine holds at most one
\* continuation (an outstanding backend call, a timer or the quota countdown),
\* a tick that begins finds no backend call of an earlier tick outstanding,
\* and no call is outstanding nor a tick begun while the engine waits for quota.
C18_OneTickInFlight ==
    /\ Len(pend) <= 1
    /\ CallsOutstanding <= 1
    /\ lastTick.kind = "call" => CallsOutstanding = 1
    /\ lastTick.kind = "hits" => CallsOutstanding = 0
    /\ isWaitingForQuota => (CallsOutstanding = 0 /\ ~TickStarted)

\* a backend call is outstanding while the engine is running on a non-empty
\* queue and the user has acted since the start
C18_CallOutstandingReached ==
    /\ CallsOutstanding = 1
    /\ processing
    /\ ~isWaitingForQuota
    /\ processingQueue # <<>>
    /\ opsLeft <= MaxUserOps - 2


StatusIn(fs, id) == FindCue(fs[FindFile(fs, id)], id).status

C20_SkippedCueNotResubmitted ==
    /\ (lastTick.kind = "failure" /\ lastTick.action \in {"skip", "retry"}) =>
          /\ \A j \in 1..Len(lastTick.needs) :
                /\ CueOf(lastTick.needs[j]).status = "error"
                /\ Truthy(CueOf(lastTick.needs[j]).errorMessage)
                /\ lastTick.needs[j] \notin Range(processingQueue)
          /\ \E i \in 1..Len(pend) : pend[i].kind = "timer"
    /\ (lastTick.kind = "call" /\ lastTick.after \in {"skip", "retry"}) =>
          Range(lastTick.needs) \subseteq Range(lastTick.queueBefore)


\* the failure classified by the last call, its status and its keywords
Classified == lastExec.out[0].error
ClassifiedQuota ==
    ErrStatus(Classified) = 429 \/ Classified.words \cap QuotaWords # {}
ClassifiedAuth ==
    \/ ErrStatus(Classified) = 400 /\ "api key" \in Classified.words
    \/ ErrStatus(Classified) \in {401, 403}
    \/ Classified.words \cap {"unauthenticated", "permission"} # {}
ClassifiedSafety ==
    Classified.words \cap {"blocked", "safety", "recitation", "finishreason"} # {}
ClassifiedServer ==
    \/ ErrStatus(Classified) >= 500
    \/ Classified.words \cap {"unavailable", "timeout", "network", "fetch"} # {}

\* C21: the action analyzeError returns for a failure that carries a message
\* is that of the first rule that matches, in the order quota (wait_quota),
\* authentication (stop), safety (skip), server (retry), default (retry):
\* status 429 with 'api key' is wait_quota, status 403 with 'safety' is stop.
C21_FirstMatchWins ==
    (lastExec.n > 0 /\ ~lastExec.out[0].ok) =>
        LET a == lastExec.res.error.action
        IN  /\ ClassifiedQuota => a = "wait_quota"
            /\ (~ClassifiedQuota /\ ClassifiedAuth) => a = "stop"
            /\ (~ClassifiedQuota /\ ~ClassifiedAuth /\ ClassifiedSafety) => a = "skip"
            /\ (~ClassifiedQuota /\ ~ClassifiedAuth /\ ~ClassifiedSafety) => a = "retry"
            /\ (ErrStatus(Classified) = 429 /\ "api key" \in Classified.words)
                  => a = "wait_quota"
            /\ (/\ ErrStatus(Classified) = 403
                /\ "safety" \in Classified.words
                /\ "quota" \notin Classified.words)
                  => a = "stop"

\* C21 (witness): a failure of status 403 whose message holds 'safety' and
\* 'network' has been classified stop
C21_ConflictClassified ==
    /\ lastExec.n > 0
    /\ ~lastExec.out[0].ok
    /\ ErrStatus(Classified) = 403
    /\ {"safety", "network"} \subseteq Classified.words
    /\ lastExec.res.error.action = "stop"


\* C22: while the engine is not running no backend call is started and no
\* tick is begun by a timer or by the expiry of the quota countdown; a call in
\* flight is not aborted: when it succeeds its result is applied, the cues it
\* had sent are completed and leave the queue, whether the engine runs or not.
C22_PauseTakesEffectAtTickBoundary ==
    [][/\ CallsOutstanding' > CallsOutstanding => processing
       /\ (lastTick'.by \in {"timer", "countdown"} /\ lastTick' # lastTick) => processing
       /\ (lastTick'.kind = "success" /\ lastTick' # lastTick) =>
             \A j \in 1..Len(lastTick'.needs) :
                /\ StatusIn(files', lastTick'.needs[j]) = "completed"
                /\ lastTick'.needs[j] \notin Range(processingQueue')]_vars

\* C22 (witness): the result of a call has been applied while the engine was
\* paused, and the timer it has set is pending
C22_AppliedWhilePaused ==
    /\ lastTick.kind = "success"
    /\ lastTick.needs # <<>>
    /\ ~processing
    /\ \E i \in 1..Len(pend) : pend[i].kind = "timer"
    /\ \A j \in 1..Len(lastTick.needs) : CueOf(lastTick.needs[j]).status = "completed"


\* C23: the engine can be restarted: whenever it is running on a non-empty
\* queue, out of the quota wait, with no tick in flight or scheduled (no call
\* outstanding, no timer, no countdown), the 'a cue is active' flag is clear,
\* so that the start effect runs a new tick.
C23_RestartPossible ==
    (processing /\ processingQueue # <<>> /\ ~isWaitingForQuota /\ pend = <<>>)
        => activeProcessingCueId = Null


\* C24: a step of the engine (a tick, or the handling of the answer of a
\* backend call) leaves translatedText and refinedText of every cue whose
\* isLocked is true as they were.
C24_LockedTextKept ==
    [][lastTick'.kind \in {"call", "hits", "success", "failure"} =>
          \A c \in CuesOf(files) :
              c.isLocked =>
                  \E d \in CuesOf(files') :
                      /\ d.originalId = c.originalId
                      /\ d.translatedText = c.translatedText
                      /\ d.refinedText = c.refinedText]_vars


\* the classifications of the attempts of the last executeWithRotation call
AttemptInfo(j) == analyzeError(lastExec.out[lastExec.res.tried[j]].error)

C26_WaitOnlyAfterWholePool ==
    [][/\ (isWaitingForQuota' /\ ~isWaitingForQuota)
             => (lastTick'.kind = "failure" /\ lastTick'.action = "wait_quota")
       /\ (/\ lastTick'.kind = "failure"
           /\ lastTick'.action \in {"wait_quota", "skip", "retry"})
             => /\ Len(lastTick'.tried) = PoolSize(settings)
                /\ Cardinality(Range(lastTick'.tried)) = PoolSize(settings)]_vars

\* C26 (witness): the engine waits for quota after a call over a pool of two
C26_WaitingAfterTwoKeys ==
    /\ isWaitingForQuota
    /\ lastTick.kind = "failure"
    /\ lastTick.action = "wait_quota"
    /\ Len(lastTick.tried) = 2


\* C27: under the sequential strategy a call of executeWithRotation attempts
\* first the position of the persisted cursor; a success on position i sets
\* the cursor to (i + 1) mod pool size, so that calls that succeed at their
\* first attempt take the credentials in cyclic order; a call that fails
\* leaves the cursor as it was.
C27_SequentialCursor ==
    [][LET res == lastExec'.res
           n == PoolSize(settings)
       IN  /\ settings.keySelectionStrategy = "sequential" => res.tried[1] = keyIndexRef
           /\ res.success => keyIndexRef' = (res.tried[Len(res.tried)] + 1) % n
           /\ (res.success /\ Len(res.tried) = 1
                           /\ settings.keySelectionStrategy = "sequential")
                 => keyIndexRef' = (keyIndexRef + 1) % n
           /\ ~res.success => keyIndexRef' = keyIndexRef]_vars

\* C27 (witness): a sequential call that started on the last key of the pool
\* succeeded at once and the cursor wrapped
C27_CursorWrapped ==
    /\ lastExec.strategy = "sequential"
    /\ lastExec.n >= 2
    /\ lastExec.cursorBefore = lastExec.n - 1
    /\ lastExec.res.success
    /\ lastExec.res.tried = <<lastExec.n - 1>>
    /\ keyIndexRef = 0


\* the values the tick that has just begun reads (those of its closure)
TickSnap == pend[Len(pend)].snap

\* C28: the text a tick applies to a cue it has found in memory is the
\* glossary entry of the trimmed text when there is one, else the Translation
\* Memory entry of the trimmed, lower-cased text when there is one, else the
\* static cache entry of that text without punctuation.
C28_TierPrecedence ==
    TickStarted =>
        \A j \in 1..Len(lastTick.hits) :
            LET cue == CueOf(lastTick.hits[j])
                clean == Trim(cue.originalText)
                lower == ToLowerCase(clean)
                glossary == TickSnap.settings.glossary
                memory == TickSnap.translationMemory
            IN  /\ clean \in DOMAIN glossary => cue.translatedText = glossary[clean]
                /\ (clean \notin DOMAIN glossary /\ lower \in DOMAIN memory)
                      => cue.translatedText = memory[lower]
                /\ (clean \notin DOMAIN glossary /\ lower \notin DOMAIN memory)
                      => cue.translatedText = COMMON_WORD_CACHE[StripPunct(lower)]

\* C28 (witness): a tick has served ' Ab' from the glossary although the
\* Translation Memory holds 'ab', and 'Ok?' from the Translation Memory
\* although the static cache holds 'ok'
C28_TiersOverlap ==
    /\ TickStarted
    /\ lastTick.hits = <<"c1", "c2">>
    /\ DOMAIN TickSnap.settings.glossary = {<<"A", "b">>}
    /\ DOMAIN TickSnap.translationMemory = {<<"a", "b">>, <<"o", "k", "?">>}
    /\ CueOf("c1").translatedText = "G"
    /\ CueOf("c2").translatedText = "M"


\* C29: every change of the status of a cue is pending to translating, pending
\* to completed, translating to completed, translating to error, completed to
\* pending, or a change to completed made by an edit of the user (source
\* 'user'); a cue becomes translating from pending only.
C29_StatusTransitions ==
    [][\A c \in CuesOf(files) : \A d \in CuesOf(files') :
          (d.originalId = c.originalId /\ d.status # c.status) =>
              \/ <<c.status, d.status>> \in
                    {<<"pending", "translating">>, <<"pending", "completed">>,
                     <<"translating", "completed">>, <<"translating", "error">>,
                     <<"completed", "pending">>}
              \/ (d.status = "completed" /\ d.translationSource = "user"
                                         /\ lastTick'.kind = "none")]_vars


\* C30: a step of handleIdiomAnalysis on a cue leaves the translatedText, the
\* refinedText and the translationSource of the cue and its membership of the
\* queue as they were, and when the analysis has ended, with an answer or a
\* failure, a cue that was completed before it is completed.
C30_IdiomIndependent ==
    [][lastTick'.kind = "idiom" =>
          LET id == lastTick'.batch[1]
              c == FindCue(files[FindFile(files, id)], id)
              d == FindCue(files'[FindFile(files', id)], id)
          IN  /\ d.translatedText = c.translatedText
              /\ d.refinedText = c.refinedText
              /\ d.translationSource = c.translationSource
              /\ (id \in Range(processingQueue')) = (id \in Range(processingQueue))
              /\ (/\ lastTick'.action \in {"translated", "error"}
                  /\ lastTick'.before = "completed")
                    => d.status = "completed"]_vars


\* C31: in every reachable state no cue with status completed is present in
\* the processing queue (a cue that reaches completed by backend success,
\* memory hit or user edit has left the queue).
C31_CompletedNotQueued ==
    \A c \in CuesOf(files) :
        c.status = "completed" => c.originalId \notin Range(processingQueue)


\* a lookup of key k in the Translation Memory m returns a translation
Present(m, k) == k \in DOMAIN m /\ m[k] # Undefined

\* C32: the in-memory Translation Memory only grows: a key that a lookup
\* finds is found by the lookup in every later state, also when the startup
\* hydration (loadFullTM) completes after the key was put.
C32_MemoryOnlyGrows ==
    [][\A k \in DOMAIN translationMemory :
          Present(translationMemory, k) => Present(translationMemory', k)]_vars


\* C33: in every reachable state a cue whose translatedText and refinedText
\* are both empty has status pending or translating (a cue with status
\* completed or error carries a non-empty translatedText or refinedText).
C33_EmptyTextOnlyWhilePending ==
    \A c \in CuesOf(files) :
        (~Truthy(c.translatedText) /\ ~Truthy(c.refinedText))
            => c.status \in {"pending", "translating"}


\* C34: in every reachable state a cue has an errorMessage only if its status
\* is error (every operation that moves a cue out of error clears the
\* errorMessage).
C34_ErrorMessageOnlyInError ==
    \A c \in CuesOf(files) : c.errorMessage # Undefined => c.status = "error"


\* a step that enters processNext, the engine running and the queue of the
\* closure not empty
TickEntered ==
    /\ lastTick'.kind \in {"nokeys", "nofile", "hits", "call", "finished"}
    /\ processing
    /\ lastTick'.read # <<>>

\* C35: a tick that finds the credential pool empty sets the engine to not
\* running and issues no backend call, and leaves the queue, the status and
\* the text of every cue, the Translation Memory and the rotation cursor as
\* they were, also when cues of the would-be batch are memory hits.
C35_NoKeysHalts ==
    [][(TickEntered /\ Len(settings.apiKeys) = 0) =>
          /\ ~processing'
          /\ sent' = sent
          /\ CallsOutstanding' = CallsOutstanding
          /\ processingQueue' = processingQueue
          /\ files' = files
          /\ translationMemory' = translationMemory
          /\ tmStore' = tmStore
          /\ keyIndexRef' = keyIndexRef]_vars

\* C35 witness: a tick has found the pool empty while the head of the queue
\* is a cue the glossary translates
C35_HaltedBeforeHit ==
    /\ lastTick.kind = "nokeys"
    /\ ~processing
    /\ processingQueue # <<>>
    /\ Truthy(Found(Snapshot, CueOf(Head(processingQueue))))


\* C36: when the head of the queue resolves to no cue of any file, the tick
\* removes that one identifier from the queue, changes no cue and issues no
\* backend call, and batch selection is retried: if the engine is running and
\* the remaining queue is not empty the start effect is due, and a due start
\* effect is the step taken next, a tick on the current queue.
C36_StaleHeadDropped ==
    [][/\ (\/ lastTick'.kind = "nofile"
           \/ (/\ TickEntered /\ lastTick'.by = "effect" /\ ~NoKeys(Snapshot)
               /\ FindFile(files, Head(processingQueue)) = 0))
          => /\ lastTick'.kind = "nofile"
             /\ FindFile(files, Head(processingQueue)) = 0
             /\ processingQueue' = Tail(processingQueue)
             /\ files' = files
             /\ sent' = sent
             /\ CallsOutstanding' = CallsOutstanding
             /\ processing' = processing
             /\ (processing' /\ processingQueue' # <<>>) => EffectReady'
       /\ EffectReady
          => /\ lastTick'.kind \in {"nokeys", "nofile", "hits", "call"}
             /\ lastTick'.by = "effect"
             /\ lastTick'.read = processingQueue]_vars

\* C36 witness: a tick has sent a batch to the backend, started by the effect
\* after a tick that dropped an identifier of a file no longer loaded
C36_RetriedAfterDrop ==
    /\ lastTick.kind = "call"
    /\ lastTick.by = "effect"
    /\ lastTick.after = "nofile"
    /\ Len(lastTick.queueBefore) >= 1


\* the identifiers addToQueue collects: the cues of the active file whose
\* status is pending or error, in display order
StartIds ==
    LET cs == files[ActiveFileIndex].cues
    IN  [j \in 1..Len(SelectSeq(cs, LAMBDA c : c.status \in {"pending", "error"})) |->
            SelectSeq(cs, LAMBDA c : c.status \in {"pending", "error"})[j].originalId]

\* C37: retryCue places the identifier of the cue at the head of the queue,
\* and the batch of the tick that follows contains it; start (addToQueue)
\* leaves the identifiers already queued where they are and appends the
\* pending and error cues of the file not yet queued, in display order.
C37_RetryAtHeadStartAtTail ==
    [][/\ lastTick'.kind = "retry"
          => processingQueue' = <<lastTick'.batch[1]>> \o processingQueue
       /\ (lastTick.kind = "retry" /\ lastTick'.kind \in {"hits", "call"})
          => lastTick.batch[1] \in Range(lastTick'.batch)
       /\ (~processing /\ processing' /\ lastTick'.kind = "none")
          => processingQueue' =
                Dedup(processingQueue)
                    \o SelectSeq(StartIds, LAMBDA id : id \notin Range(processingQueue))]_vars


\* C38: autosave does not lose the dirty mark: the unsaved-changes flag is
\* not cleared while the stored draft differs from the files in memory, so
\* that a change made while a write of the draft is in progress is written by
\* a later autosave interval (whose callback saves only when the flag is set).
C38_DirtyMarkKept ==
    (Len(files) > 0 /\ ~hasUnsavedChanges) => draft = DraftOf(files)


\* the files of the collection that hold a cue of the identifier
FilesHolding(id) == {i \in 1..Len(files) : id \in CueIds(files[i])}

\* C39: in every state reached by file upload, draft restore and loading
\* from the library, each cue identifier (originalId) occurs in exactly one
\* file of the collection.
C39_CueInOneFile ==
    \A i \in 1..Len(files) : \A id \in CueIds(files[i]) :
        Cardinality(FilesHolding(id)) = 1

============================================================================
